---- MODULE Spec2Model ----
(***************************************************************************)
(* A model of the rl crate: the weighted sampler (probability.rs), the     *)
(* arena MDP and its environment cursor (markov.rs), the ArgOrd helpers    *)
(* (miscellaneous.rs) and the TD(0) / Q-learning loops (algorithms.rs).    *)
(*                                                                         *)
(* f32 values are modelled by exact rationals <<n, d>> (d > 0, lowest      *)
(* terms); the non-finite f32 values are explicit weight classes.  A       *)
(* Rust panic is the outcome kind "panic".  Arena keys are 1..Len(states)  *)
(* in insertion order; 0 is the null key and any larger number is a key    *)
(* the arena never issued.  Vec indices are 0-based as in the source and   *)
(* shifted by one where a TLA+ sequence is indexed.                        *)
(***************************************************************************)
EXTENDS Integers, Sequences, FiniteSets, TLC

VARIABLES
    states,         \* MDP.states: the arena, a sequence of State (each a sequence of Distribution)
    gamma,          \* MDP.gamma
    cur_state,      \* MDPEnvironment.cur_state
    distribution,   \* the Result of Distribution::new for the Distribution under test
    call,           \* the last call made: [op, ...arguments]
    ret,            \* what the last call returned: [kind, value]
    q_function,     \* perform_q_learning: q_func
    num_seen,       \* perform_q_learning: num_seen
    value_mapping,  \* td_zero: value_mapping
    policy,         \* MDPPolicy.policy
    epoch_size,     \* the epoch_size argument of the running algorithm
    starting_state, \* position of the outer loop over states().keys()
    iter,           \* position of the inner loop 0..epoch_size
    pc,             \* where the running algorithm is: "idle", "run", "done", "panic"
    history,        \* ghost: the cursor steps since the last reset (SpecRing), or the
                    \*        last update of the running algorithm, as a one-element sequence
    executed        \* ghost: executed[s][a + 1] counts the executions of action a at state s

vars == <<states, gamma, cur_state, distribution, call, ret, q_function, num_seen,
          value_mapping, policy, epoch_size, starting_state, iter, pc, history,
          executed>>

----------------------------------------------------------------------------
(* Bounds of the model *)

MaxLen == 2
MaxWeight == 2
MaxStates == 2
MaxSlots == 2
MaxSteps == 5
MaxRing == 4
MaxEpoch == 2

----------------------------------------------------------------------------
(* Exact rational arithmetic standing for f32 arithmetic *)

RECURSIVE GCD(_, _)
GCD(a, b) == IF b = 0 THEN a ELSE GCD(b, a % b)

Abs(n) == IF n < 0 THEN -n ELSE n

RNorm(q) ==
    LET g == GCD(Abs(q[1]), q[2])
    IN  <<q[1] \div g, q[2] \div g>>

\* the least common denominator of two rationals, and a numerator over it
LCD(p, q) == (p[2] \div GCD(p[2], q[2])) * q[2]

Over(p, den) == p[1] * (den \div p[2])

RAdd(p, q) == RNorm(<<Over(p, LCD(p, q)) + Over(q, LCD(p, q)), LCD(p, q)>>)

RSub(p, q) == RNorm(<<Over(p, LCD(p, q)) - Over(q, LCD(p, q)), LCD(p, q)>>)

\* p and q are in lowest terms: cancel across before multiplying
RMul(p, q) ==
    LET g1 == GCD(Abs(p[1]), q[2])
        g2 == GCD(Abs(q[1]), p[2])
    IN  RNorm(<<(p[1] \div g1) * (q[1] \div g2), (p[2] \div g2) * (q[2] \div g1)>>)

RDiv(p, q) == RNorm(<<p[1] * q[2], p[2] * q[1]>>)

RLess(p, q) == Over(p, LCD(p, q)) < Over(q, LCD(p, q))

RInt(n) == <<n, 1>>

\* f32::partial_cmp on two finite values
partial_cmp(p, q) == IF RLess(p, q) THEN "Less" ELSE IF RLess(q, p) THEN "Greater" ELSE "Equal"

----------------------------------------------------------------------------
(* miscellaneous.rs : ArgOrd for Vec<T>.  Iterator::min_by keeps the first  *)
(* of equal minima and Iterator::max_by the last of equal maxima; each is   *)
(* a fold over the elements with the comparator the source passes.          *)

\* the comparator of arg_max / max_val: v1.partial_cmp(v2)
cmp_forward(v1, v2) == partial_cmp(v1, v2)

\* the comparator of arg_min / min_val: v2.partial_cmp(v1)
cmp_reversed(v1, v2) == partial_cmp(v2, v1)

\* min_by with the comparator of arg_min / min_val: the accumulator x is
\* replaced by y exactly when compare(x, y) is Greater
RECURSIVE min_by(_, _, _)
min_by(v, best, i) ==
    IF i > Len(v) THEN best
    ELSE min_by(v, IF cmp_reversed(v[best], v[i]) = "Greater" THEN i ELSE best, i + 1)

\* max_by with the comparator of arg_max / max_val: the accumulator x is kept
\* exactly when compare(x, y) is Greater
RECURSIVE max_by(_, _, _)
max_by(v, best, i) ==
    IF i > Len(v) THEN best
    ELSE max_by(v, IF cmp_forward(v[best], v[i]) = "Greater" THEN best ELSE i, i + 1)

None == [kind |-> "None", value |-> 0]

Some(x) == [kind |-> "Some", value |-> x]

arg_max(v) == IF Len(v) = 0 THEN None ELSE Some(max_by(v, 1, 2) - 1)

arg_min(v) == IF Len(v) = 0 THEN None ELSE Some(min_by(v, 1, 2) - 1)

\* Option::unwrap of the fold's result
max_val(v) ==
    IF Len(v) = 0 THEN [kind |-> "panic", value |-> 0]
    ELSE [kind |-> "Ok", value |-> v[max_by(v, 1, 2)]]

min_val(v) ==
    IF Len(v) = 0 THEN [kind |-> "panic", value |-> 0]
    ELSE [kind |-> "Ok", value |-> v[min_by(v, 1, 2)]]

----------------------------------------------------------------------------
(* probability.rs : Distribution<V> *)

\* an f32 weight: a finite number, or one of the non-finite values
Finite(n) == [cls |-> "finite", val |-> n]

NaN == [cls |-> "nan", val |-> 0]

PosInf == [cls |-> "inf", val |-> 0]

NegInf == [cls |-> "ninf", val |-> 0]

is_finite(w) == w.cls = "finite"

\* *weight <= 0.0
non_positive(w) == w.cls = "ninf" \/ (w.cls = "finite" /\ w.val <= 0)

Err(e) == [kind |-> e, value |-> <<>>]

Ok(x) == [kind |-> "Ok", value |-> x]

Panic == [kind |-> "panic", value |-> <<>>]

\* the first loop of from: the checks and the running prefix sums
RECURSIVE from_prefix(_, _, _, _)
from_prefix(pairs, i, sum, acc) ==
    IF i > Len(pairs) THEN [kind |-> "Ok", sum |-> sum, table |-> acc]
    ELSE
        LET weight == pairs[i][1]
        IN  IF ~is_finite(weight) THEN [kind |-> "NotFinite", sum |-> 0, table |-> <<>>]
            ELSE IF non_positive(weight) THEN [kind |-> "NonPositive", sum |-> 0, table |-> <<>>]
            ELSE from_prefix(pairs, i + 1, sum + weight.val,
                             Append(acc, <<weight.val + sum, pairs[i][2]>>))

\* Distribution::from over (weight, value) pairs; the second loop divides by the sum
Distribution_from(pairs) ==
    LET p == from_prefix(pairs, 1, 0, <<>>)
    IN  IF p.kind # "Ok" THEN Err(p.kind)
        ELSE Ok([i \in 1..Len(p.table) |->
                    [weight |-> RDiv(RInt(p.table[i][1]), RInt(p.sum)),
                     value |-> p.table[i][2]]])

zip(a, b) == [i \in 1..(IF Len(a) < Len(b) THEN Len(a) ELSE Len(b)) |-> <<a[i], b[i]>>]

\* construction without the length check: zip stops at the shorter sequence
Distribution_new_unchecked(items, weights) == Distribution_from(zip(weights, items))

Distribution_new(items, weights) ==
    IF Len(items) # Len(weights) THEN Err("SizeMismatch")
    ELSE Distribution_from(zip(weights, items))

\* slice::binary_search_by with the comparator weight.partial_cmp(&rnd);
\* the result is the 0-based index of Ok(idx) or Err(idx) alike
RECURSIVE binary_search_by(_, _, _, _)
binary_search_by(table, rnd, left, right) ==
    IF left >= right THEN left
    ELSE
        LET mid == left + ((right - left) \div 2)
            c == partial_cmp(table[mid + 1].weight, rnd)
        IN  IF c = "Less" THEN binary_search_by(table, rnd, mid + 1, right)
            ELSE IF c = "Greater" THEN binary_search_by(table, rnd, left, mid)
            ELSE mid

\* Distribution::sample with the uniform draw rnd in [0, 1) made explicit
sample(table, rnd) ==
    LET val_idx == binary_search_by(table, rnd, 0, Len(table))
    IN  IF val_idx >= Len(table) THEN Panic ELSE Ok(table[val_idx + 1].value)

\* the draws of Uniform::new(0.0, 1.0) the model explores.  A table built from
\* weights of sum s has its cumulative weights among the multiples of 1/s, and
\* sample depends on the draw only through its place among them: the draws are
\* every multiple of 1/s in [0, 1) and every midpoint between two neighbours,
\* for every sum s the weights can reach.
Draws ==
    {RNorm(<<q[1], 2 * q[2]>>) :
        q \in {r \in (0..(2 * MaxWeight * MaxLen)) \X (1..(MaxWeight * MaxLen)) :
                  r[1] < 2 * r[2]}}

\* all sequences over S of length at most n
SeqsUpTo(S, n) == UNION {[1..k -> S] : k \in 0..n}

----------------------------------------------------------------------------
(* SpecDist: one Distribution from construction to its draws.  Init draws   *)
(* the arguments of Distribution::new; the object is immutable afterwards.  *)

ItemVals == {0, 1}

WeightVals == {NaN, PosInf, NegInf, Finite(-1), Finite(0)} \cup {Finite(w) : w \in 1..MaxWeight}

NoCall == [op |-> "none"]

NoRet == [kind |-> "none", value |-> <<>>]

\* the variables of the MDP, its cursor and the learning loops, at rest
MDPIdle ==
    /\ states = <<>>
    /\ gamma = <<1, 2>>
    /\ cur_state = 0

AlgIdle ==
    /\ q_function = <<>>
    /\ num_seen = <<>>
    /\ value_mapping = <<>>
    /\ policy = <<>>
    /\ epoch_size = 0
    /\ starting_state = 0
    /\ iter = 0
    /\ pc = "idle"
    /\ history = <<>>
    /\ executed = <<>>

mdp_vars == <<states, gamma, cur_state>>

alg_vars == <<q_function, num_seen, value_mapping, policy, epoch_size, starting_state,
              iter, pc, history, executed>>

InitDist ==
    /\ \E items \in SeqsUpTo(ItemVals, MaxLen), weights \in SeqsUpTo(WeightVals, MaxLen) :
           call = [op |-> "args", items |-> items, weights |-> weights, rnd |-> <<0, 1>>]
    /\ distribution = NoRet
    /\ ret = NoRet
    /\ MDPIdle
    /\ AlgIdle

\* let d = Distribution::new(items, weights)
NewDistribution ==
    /\ call.op = "args"
    /\ distribution' = Distribution_new(call.items, call.weights)
    /\ call' = [call EXCEPT !.op = "new"]
    /\ ret' = NoRet
    /\ UNCHANGED <<mdp_vars, alg_vars>>

\* d.sample() on a constructed Distribution
SampleDistribution ==
    /\ call.op \in {"new", "sample"}
    /\ distribution.kind = "Ok"
    /\ \E rnd \in Draws :
           /\ ret' = sample(distribution.value, rnd)
           /\ call' = [call EXCEPT !.op = "sample", !.rnd = rnd]
    /\ UNCHANGED <<distribution, mdp_vars, alg_vars>>

NextDist == NewDistribution \/ SampleDistribution

SpecDist == InitDist /\ [][NextDist]_vars

\* the least element of a non-empty set of integers
Least(S) == CHOOSE x \in S : \A y \in S : x <= y

\* the 1-based positions of the weights Distribution::new must reject
Offending(weights) ==
    {i \in 1..Len(weights) :
        \/ weights[i].cls # "finite"
        \/ weights[i].val <= 0}

\* C4: Distribution::new never panics; it returns SizeMismatch when the lengths
\* differ, otherwise the error of the first offending weight in input order
\* (NotFinite for a non-finite one, NonPositive for one <= 0), otherwise a table
\* with one entry per input pair, in input order.
DistributionNewContract ==
    call.op \in {"new", "sample"} =>
        LET items == call.items
            weights == call.weights
            bad == Offending(weights)
        IN  /\ distribution.kind \in {"Ok", "SizeMismatch", "NotFinite", "NonPositive"}
            /\ Len(items) # Len(weights) => distribution.kind = "SizeMismatch"
            /\ (Len(items) = Len(weights) /\ bad # {}) =>
                   distribution.kind =
                       IF weights[Least(bad)].cls # "finite" THEN "NotFinite" ELSE "NonPositive"
            /\ (Len(items) = Len(weights) /\ bad = {}) =>
                   /\ distribution.kind = "Ok"
                   /\ Len(distribution.value) = Len(items)
                   /\ \A i \in 1..Len(items) : distribution.value[i].value = items[i]

\* C4 witness: new has rejected a negative-infinite weight as NotFinite although
\* a later weight is non-positive, with both sequences of the same length
DistributionNewWitness ==
    /\ call.op = "new"
    /\ Len(call.items) = Len(call.weights)
    /\ Len(call.weights) = MaxLen
    /\ call.weights[1] = NegInf
    /\ call.weights[MaxLen] = Finite(0)
    /\ distribution.kind = "NotFinite"

\* the cumulative table of a constructed Distribution: strictly increasing and
\* ending in 1
TableInvariant(table) ==
    /\ Len(table) > 0
    /\ table[Len(table)].weight = <<1, 1>>
    /\ \A i \in 1..(Len(table) - 1) : RLess(table[i].weight, table[i + 1].weight)

\* C5: every constructed Distribution has a strictly increasing cumulative table
\* ending in 1, and every draw u in [0, 1) returns the value at the smallest
\* index whose cumulative weight is >= u; sample() never fails.
SampleFirstInterval ==
    call.op = "sample" =>
        LET table == distribution.value
            hits == {i \in 1..Len(table) : ~RLess(table[i].weight, call.rnd)}
        IN  /\ TableInvariant(table)
            /\ hits # {}
            /\ ret.kind = "Ok"
            /\ ret.value = table[Least(hits)].value

\* the same statement restricted to a Distribution with at least one entry
SampleFirstIntervalNonEmpty ==
    (call.op = "sample" /\ Len(distribution.value) > 0) =>
        LET table == distribution.value
            hits == {i \in 1..Len(table) : ~RLess(table[i].weight, call.rnd)}
        IN  /\ TableInvariant(table)
            /\ hits # {}
            /\ ret.kind = "Ok"
            /\ ret.value = table[Least(hits)].value

----------------------------------------------------------------------------
(* markov.rs : State, MDP, MDPEnvironment *)

\* State::do_action on a State (its transitions) with the draw made explicit
do_action(transitions, action, rnd) ==
    IF action < Len(transitions) THEN sample(transitions[action + 1], rnd)
    ELSE Err("ActionDoesNotExist")

\* SlotMap's Index: a key the arena does not hold panics
contains_key(arena, key) == key \in 1..Len(arena)

\* MDP::new: the checks on gamma
MDP_new(g) ==
    IF ~RLess(<<0, 1>>, g) \/ ~RLess(g, <<1, 1>>) THEN Panic
    ELSE Ok([states |-> <<>>, gamma |-> g])

\* MDP::sample_transition: self.states[state].do_action(action)
sample_transition(arena, state, action, rnd) ==
    IF ~contains_key(arena, state) THEN Panic
    ELSE do_action(arena[state], action, rnd)

\* MDP::add_transition on the arena: self.states[state].transitions.push(..)
add_transition(arena, state, target_distribution) ==
    IF ~contains_key(arena, state) THEN Panic
    ELSE Ok([arena EXCEPT ![state] = Append(@, target_distribution)])

\* MDP::add_new_state on the arena: the new arena and the key issued
add_new_state(arena) == [arena |-> Append(arena, <<>>), key |-> Len(arena) + 1]

\* Reward::new(n as f32)
Reward(n) == RInt(n)

\* a cursor that returns the reward but stays where it was
perform_action_stale(arena, cur, action, rnd) ==
    LET r == sample_transition(arena, cur, action, rnd)
    IN  IF r.kind # "Ok" THEN [kind |-> "panic", cur_state |-> cur, reward |-> <<0, 1>>]
        ELSE [kind |-> "Ok", cur_state |-> cur, reward |-> r.value[2]]

\* MDPEnvironment::perform_action: sample_transition(..).expect(..), then the
\* cursor moves to the sampled successor and the sampled reward is returned
perform_action(arena, cur, action, rnd) ==
    LET r == sample_transition(arena, cur, action, rnd)
    IN  IF r.kind # "Ok" THEN [kind |-> "panic", cur_state |-> cur, reward |-> <<0, 1>>]
        ELSE [kind |-> "Ok", cur_state |-> r.value[1], reward |-> r.value[2]]

\* MDPEnvironment::reset
reset(cur, starting) == starting

----------------------------------------------------------------------------
(* SpecMDP: an MDP under construction and query.  A panic ends the run.     *)

GammaArgs == {<<0, 1>>, <<1, 2>>, <<1, 1>>}

\* the Distributions a caller registers: none, one or two outcomes
TargetDistributions(arena) ==
    {Distribution_new(<<>>, <<>>).value} \cup
    {Distribution_new(<<<<t, Reward(1)>>>>, <<Finite(1)>>).value : t \in 1..Len(arena)} \cup
    {Distribution_new(<<<<t, Reward(1)>>, <<1, Reward(2)>>>>, <<Finite(1), Finite(2)>>).value :
        t \in 1..Len(arena)}

\* the draws that tell the outcomes of those Distributions apart
MDPDraws == {<<0, 1>>, <<1, 3>>, <<1, 2>>}

RECURSIVE TotalSlots(_)
TotalSlots(arena) == IF arena = <<>> THEN 0 ELSE Len(Head(arena)) + TotalSlots(Tail(arena))

MDPCall(op, state, action) == [op |-> op, state |-> state, action |-> action]

InitMDP ==
    /\ \E g \in GammaArgs :
           /\ MDP_new(g).kind = "Ok"
           /\ states = MDP_new(g).value.states
           /\ gamma = MDP_new(g).value.gamma
    /\ cur_state = 0
    /\ distribution = NoRet
    /\ call = NoCall
    /\ ret = NoRet
    /\ AlgIdle

AddNewState ==
    /\ ret.kind # "panic"
    /\ Len(states) < MaxStates
    /\ states' = add_new_state(states).arena
    /\ ret' = Ok(add_new_state(states).key)
    /\ call' = MDPCall("add_new_state", 0, 0)
    /\ UNCHANGED <<gamma, cur_state, distribution, alg_vars>>

AddTransition ==
    /\ ret.kind # "panic"
    /\ TotalSlots(states) < MaxSlots
    /\ \E state \in 0..(Len(states) + 1), d \in TargetDistributions(states) :
           LET r == add_transition(states, state, d)
           IN  /\ states' = IF r.kind = "Ok" THEN r.value ELSE states
               /\ ret' = IF r.kind = "Ok" THEN Ok(<<>>) ELSE r
               /\ call' = MDPCall("add_transition", state, 0)
    /\ UNCHANGED <<gamma, cur_state, distribution, alg_vars>>

SampleTransition ==
    /\ ret.kind # "panic"
    /\ \E state \in 0..(Len(states) + 1), action \in 0..MaxSlots, rnd \in MDPDraws :
           /\ ret' = sample_transition(states, state, action, rnd)
           /\ call' = MDPCall("sample_transition", state, action)
    /\ UNCHANGED <<states, gamma, cur_state, distribution, alg_vars>>

NextMDP == AddNewState \/ AddTransition \/ SampleTransition

SpecMDP == InitMDP /\ [][NextMDP]_vars

\* the outcomes registered in an action slot
Outcomes(table) == {table[i].value : i \in 1..Len(table)}

\* C2: sample_transition on a state identity the arena does not hold returns a
\* typed not-found failure for every action index; it never panics.
UnknownStateIsTypedFailure ==
    (call.op = "sample_transition" /\ call.state \notin 1..Len(states)) =>
        ret.kind \in {"NotFound", "ActionDoesNotExist"}

\* C3: on a state of the model, sample_transition returns ActionDoesNotExist for
\* an action index at or beyond the number of registered transitions, and for a
\* smaller index one of the (successor, reward) outcomes registered in the slot.
SampleTransitionContract ==
    (call.op = "sample_transition" /\ call.state \in 1..Len(states)) =>
        IF call.action >= Len(states[call.state])
        THEN ret.kind = "ActionDoesNotExist"
        ELSE /\ ret.kind = "Ok"
             /\ ret.value \in Outcomes(states[call.state][call.action + 1])

\* the part of C3 about out-of-range indices alone
OutOfRangeActionIsTypedFailure ==
    (/\ call.op = "sample_transition"
     /\ call.state \in 1..Len(states)
     /\ call.action >= Len(states[call.state])) => ret.kind = "ActionDoesNotExist"

\* sample_transition leaves the model as it was
SampleTransitionKeepsModel ==
    [][call'.op = "sample_transition" => (states' = states /\ gamma' = gamma)]_vars

----------------------------------------------------------------------------
(* SpecRing: the cursor on the zero-variance ring of tests::test_cycle_ddp: *)
(* N states, action 0 one step forward and action 1 one step backward,      *)
(* each with reward i at states[i].                                         *)

\* the single-outcome Distribution of the test: Distribution::new(vec![(to, r)], vec![1.0])
SingleOutcome(to, r) == Distribution_new(<<<<to, r>>>>, <<Finite(1)>>).value

RECURSIVE AddStates(_, _)
AddStates(arena, n) == IF n = 0 THEN arena ELSE AddStates(add_new_state(arena).arena, n - 1)

\* the loop body of the test for states[i], 0-based i
RingTransitions(arena, i) ==
    LET n == Len(arena)
        fwd == add_transition(arena, i + 1,
                              SingleOutcome(((i + 1) % n) + 1, Reward(i))).value
    IN  add_transition(fwd, i + 1, SingleOutcome(((i + n - 1) % n) + 1, Reward(i))).value

RECURSIVE AddRing(_, _)
AddRing(arena, i) == IF i = Len(arena) THEN arena ELSE AddRing(RingTransitions(arena, i), i + 1)

CycleMDP(n) == AddRing(AddStates(<<>>, n), 0)

InitRing ==
    /\ \E n \in 2..MaxRing : states = CycleMDP(n)
    /\ gamma = <<9, 10>>
    /\ cur_state = 1
    /\ distribution = NoRet
    /\ call = MDPCall("MDPEnvironment::new", 1, 0)
    /\ ret = NoRet
    /\ AlgIdle

\* mdp_environment.reset(s)
Reset ==
    /\ pc # "panic"
    /\ \E s \in 1..Len(states) :
           /\ cur_state' = reset(cur_state, s)
           /\ call' = MDPCall("reset", s, 0)
    /\ ret' = NoRet
    /\ history' = <<>>
    /\ UNCHANGED <<states, gamma, distribution, q_function, num_seen, value_mapping,
                   policy, epoch_size, starting_state, iter, pc, executed>>

\* mdp_environment.perform_action(&action)
PerformAction ==
    /\ pc # "panic"
    /\ Len(history) < MaxSteps
    /\ \E action \in 0..2, rnd \in MDPDraws :
           LET r == perform_action(states, cur_state, action, rnd)
           IN  /\ cur_state' = r.cur_state
               /\ call' = MDPCall("perform_action", cur_state, action)
               /\ ret' = IF r.kind = "Ok" THEN Ok(r.reward) ELSE Panic
               /\ pc' = IF r.kind = "Ok" THEN pc ELSE "panic"
               /\ history' = IF r.kind = "Ok"
                             THEN Append(history, [state |-> cur_state, action |-> action,
                                                   reward |-> r.reward, next |-> r.cur_state])
                             ELSE history
    /\ UNCHANGED <<states, gamma, distribution, q_function, num_seen, value_mapping,
                   policy, epoch_size, starting_state, iter, executed>>

NextRing == Reset \/ PerformAction

SpecRing == InitRing /\ [][NextRing]_vars

\* the state the trajectory started from: the last reset (or construction) state
StartOf(h) == IF h = <<>> THEN cur_state ELSE h[1].state

\* 0-based ring position after the first k actions of h from 0-based position s0
RECURSIVE RingPosition(_, _, _, _)
RingPosition(h, k, s0, n) ==
    IF k = 0 THEN s0
    ELSE (RingPosition(h, k - 1, s0, n) + (IF h[k].action = 0 THEN 1 ELSE n - 1)) % n

\* C6: on the zero-variance ring the cursor is deterministic: each
\* perform_action(a) moves to the successor of slot a and returns its reward,
\* reset(s) sets the current state to s and leaves the model alone, and the
\* trajectory after a reset is a function of the start state and the actions:
\* k steps of action 0 from states[0] end in states[k mod N], action 1 walks
\* backwards, and alternating 0, 1 alternates between states[0] and states[1].
CursorDeterministic ==
    LET n == Len(states)
        k == Len(history)
        s0 == StartOf(history) - 1
    IN  /\ states = CycleMDP(n)
        /\ call.op = "reset" => (cur_state = call.state /\ history = <<>>)
        /\ \A i \in 1..k :
               LET slot == states[history[i].state][history[i].action + 1]
               IN  /\ history[i].next = slot[1].value[1]
                   /\ history[i].reward = slot[1].value[2]
                   /\ history[i].state = RingPosition(history, i - 1, s0, n) + 1
                   /\ history[i].reward = Reward(RingPosition(history, i - 1, s0, n))
        /\ (pc # "panic" => cur_state = RingPosition(history, k, s0, n) + 1)
        /\ (s0 = 0 /\ \A i \in 1..k : history[i].action = 0) =>
               /\ (pc # "panic" => cur_state = (k % n) + 1)
               /\ \A i \in 1..k : history[i].reward = Reward((i - 1) % n)
        /\ (s0 = 0 /\ \A i \in 1..k : history[i].action = 1) =>
               /\ (pc # "panic" => cur_state = ((k * n - k) % n) + 1)
               /\ \A i \in 1..k : history[i].reward = Reward((k * n - (i - 1)) % n)
        /\ (s0 = 0 /\ pc # "panic" /\ \A i \in 1..k : history[i].action = (i - 1) % 2) =>
               cur_state = (k % 2) + 1

\* C6 witness: after a reset to states[0], more steps of action 0 than the ring
\* has states have wrapped around to states[1]
CursorDeterministicWitness ==
    /\ Len(history) = Len(states) + 1
    /\ history[1].state = 1
    /\ \A i \in 1..Len(history) : history[i].action = 0
    /\ cur_state = 2
    /\ ret = Ok(Reward(0))

----------------------------------------------------------------------------
(* algorithms.rs : Q-learning *)

\* probability::throw_coin(epsilon): the outcomes a coin of bias epsilon can show
throw_coin(epsilon) ==
    IF ~RLess(<<0, 1>>, epsilon) THEN {FALSE}
    ELSE IF ~RLess(epsilon, <<1, 1>>) THEN {TRUE}
    ELSE BOOLEAN

\* the tables perform_q_learning starts from: a zero per transition of each state
zero_table(arena, zero) == [s \in 1..Len(arena) |-> [a \in 1..Len(arena[s]) |-> zero]]

\* the Distribution built in the epsilon branch.  The call hands Distribution::from
\* the pairs of (0..len).zip(1.0, 1.0, ...), and from takes the first of a pair as
\* the weight and the second as the item: the weights are the indices 0..len-1
\* and every item is 1.0
uniform_over(len) == Distribution_from([i \in 1..len |-> <<Finite(i - 1), 1>>])

\* the future reward of perform_q_update: the entry of q at the index sampled
\* from the unwrapped Distribution when the coin shows true, the maximum of q
\* otherwise
future_reward(q, coin, rnd) ==
    IF coin
    THEN LET d == uniform_over(Len(q))
             idx == sample(d.value, rnd)
         IN  IF d.kind # "Ok" \/ idx.kind # "Ok" THEN Panic ELSE Ok(q[idx.value + 1])
    ELSE LET m == max_val(q)
         IN  IF m.kind # "Ok" THEN Panic ELSE Ok(m.value)

\* the assignment that ends perform_q_update
q_blend(old, learning_rate, expected_reward) ==
    RAdd(RMul(RSub(<<1, 1>>, learning_rate), old), RMul(learning_rate, expected_reward))

\* MDP::perform_q_update with its three random draws made explicit: the
\* transition draw rnd, the coin and the draw rnd2 of the epsilon branch
perform_q_update(arena, g, cur, q, seen, learning_rate, rnd, coin, rnd2) ==
    LET action == arg_min(seen[cur])
        stuck == [kind |-> "panic", cur_state |-> cur, q_function |-> q, update |-> <<>>]
    IN  IF action.kind = "None" THEN stuck
        ELSE
            LET step == perform_action(arena, cur, action.value, rnd)
            IN  IF step.kind # "Ok" THEN stuck
                ELSE
                    LET new_state == step.cur_state
                        future == future_reward(q[new_state], coin, rnd2)
                    IN  IF future.kind # "Ok"
                        THEN [stuck EXCEPT !.cur_state = new_state]
                        ELSE
                            LET expected_reward == RAdd(step.reward, RMul(g, future.value))
                            IN  [kind |-> "Ok",
                                 cur_state |-> new_state,
                                 q_function |->
                                     [q EXCEPT ![cur][action.value + 1] =
                                         q_blend(@, learning_rate, expected_reward)],
                                 update |-> <<[state |-> cur, action |-> action.value,
                                               reward |-> step.reward, next |-> new_state,
                                               coin |-> coin, future |-> future.value]>>]

----------------------------------------------------------------------------
(* SpecQ: one call of perform_q_learning on a small MDP.  State i has       *)
(* acts[i] actions; action j steps to the next state with weight 1 and      *)
(* reward j + 1, or stays where it is with weight 2 and reward 0.           *)

QSlot(arena, i, j) ==
    LET succ == (i % Len(arena)) + 1
    IN  Distribution_new(<<<<succ, Reward(j + 1)>>, <<i, Reward(0)>>>>,
                         <<Finite(1), Finite(2)>>).value

RECURSIVE AddSlots(_, _, _)
AddSlots(arena, i, acts) ==
    IF Len(arena[i]) = acts THEN arena
    ELSE AddSlots(add_transition(arena, i, QSlot(arena, i, Len(arena[i]))).value, i, acts)

RECURSIVE AddAllSlots(_, _, _)
AddAllSlots(arena, acts, i) ==
    IF i > Len(arena) THEN arena
    ELSE AddAllSlots(AddSlots(arena, i, acts[i]), acts, i + 1)

QModel(acts) == AddAllSlots(AddStates(<<>>, Len(acts)), acts, 1)

QModels == {QModel(acts) : acts \in UNION {[1..n -> 0..MaxSlots] : n \in 1..MaxStates}}

LearningRates == {<<1, 4>>}

\* one transition draw per outcome of a QSlot (cumulative weights 1/3 and 1)
QDraws == {<<0, 1>>, <<1, 2>>}

Epsilons == {<<1, 2>>}

\* perform_q_learning up to its first loop: the tables are zeroed
InitQ ==
    /\ states \in QModels
    /\ gamma = <<1, 2>>
    /\ cur_state = 0
    /\ distribution = NoRet
    /\ \E lr \in LearningRates, eps \in Epsilons :
           call = [op |-> "perform_q_learning", learning_rate |-> lr, epsilon |-> eps]
    /\ ret = NoRet
    /\ q_function = zero_table(states, <<0, 1>>)
    /\ num_seen = zero_table(states, <<0, 1>>)
    /\ value_mapping = <<>>
    /\ policy = <<>>
    /\ epoch_size \in 1..MaxEpoch
    /\ starting_state = 0
    /\ iter = 0
    /\ pc = "run"
    /\ history = <<>>
    /\ executed = zero_table(states, 0)

\* the outer loop takes the next key and builds the cursor rooted there
QNextStartingState ==
    /\ pc = "run"
    /\ starting_state = 0 \/ iter = epoch_size
    /\ starting_state < Len(states)
    /\ starting_state' = starting_state + 1
    /\ cur_state' = starting_state + 1
    /\ iter' = 0
    /\ UNCHANGED <<states, gamma, distribution, call, ret, q_function, num_seen,
                   value_mapping, policy, epoch_size, pc, history, executed>>

\* one pass of the inner loop: perform_q_update
QUpdate ==
    /\ pc = "run"
    /\ starting_state >= 1
    /\ iter < epoch_size
    /\ \E rnd \in QDraws, coin \in throw_coin(call.epsilon) :
       \E rnd2 \in (IF coin THEN QDraws ELSE {<<0, 1>>}) :
           \E r \in {perform_q_update(states, gamma, cur_state, q_function, num_seen,
                                       call.learning_rate, rnd, coin, rnd2)} :
               /\ q_function' = r.q_function
               /\ cur_state' = r.cur_state
               /\ history' = r.update
               /\ pc' = IF r.kind = "Ok" THEN "run" ELSE "panic"
               /\ iter' = IF r.kind = "Ok" THEN iter + 1 ELSE iter
               /\ executed' =
                      IF r.kind = "Ok"
                      THEN [executed EXCEPT ![r.update[1].state][r.update[1].action + 1] = @ + 1]
                      ELSE executed
    /\ UNCHANGED <<states, gamma, distribution, call, ret, num_seen, value_mapping, policy,
                   epoch_size, starting_state>>

\* both loops are over: q_func is returned
QReturn ==
    /\ pc = "run"
    /\ starting_state = Len(states)
    /\ iter = epoch_size
    /\ pc' = "done"
    /\ ret' = Ok(q_function)
    /\ UNCHANGED <<states, gamma, cur_state, distribution, call, q_function, num_seen,
                   value_mapping, policy, epoch_size, starting_state, iter, history, executed>>

NextQ == QNextStartingState \/ QUpdate \/ QReturn

SpecQ == InitQ /\ [][NextQ]_vars

\* the entries of a Vec, as a set
Entries(v) == {v[i] : i \in 1..Len(v)}

\* the actions of state s none of which has been executed more often
LeastExecuted(counts) ==
    {a \in 1..Len(counts) : \A b \in 1..Len(counts) : counts[a] <= counts[b]}

\* C1: every update executes the action with the fewest prior executions at the
\* cursor's state (lowest index on ties), so at a state with more than one action
\* no action is executed a second time before each has been executed once.
LeastVisitedFirst ==
    /\ (pc = "run" /\ history # <<>>) =>
           LET h == history[1]
               prior == [executed[h.state] EXCEPT ![h.action + 1] = @ - 1]
           IN  h.action + 1 = Least(LeastExecuted(prior))
    /\ \A s \in 1..Len(states) :
           (Len(states[s]) > 1 /\ \E a \in 1..Len(states[s]) : executed[s][a] >= 2) =>
               \A a \in 1..Len(states[s]) : executed[s][a] >= 1

\* the update rule of C7 for one step from q to q2 recorded as h
UpdateRule(q, q2, h, learning_rate) ==
    LET s == h.state
        a == h.action + 1
        qn == q[h.next]
        candidates == IF h.coin THEN Entries(qn)
                      ELSE {m \in Entries(qn) : \A x \in Entries(qn) : ~RLess(m, x)}
    IN  /\ <<h.next, h.reward>> \in Outcomes(states[s][a])
        /\ \E fv \in candidates :
               q2[s][a] = RAdd(RMul(RSub(<<1, 1>>, learning_rate), q[s][a]),
                               RMul(learning_rate, RAdd(h.reward, RMul(gamma, fv))))
        /\ \A s2 \in 1..Len(q) : \A a2 \in 1..Len(q[s2]) :
               (s2 # s \/ a2 # a) => q2[s2][a2] = q[s2][a2]

\* every update that completes follows the update rule, and the Q vectors keep
\* the lengths of the action lists
CompletedUpdatesFollowRule ==
    /\ [](\A s \in 1..Len(q_function) : Len(q_function[s]) = Len(states[s]))
    /\ [](Len(q_function) = Len(states))
    /\ [][/\ iter' = iter + 1 =>
                /\ history'[1].state = cur_state
                /\ cur_state' = history'[1].next
                /\ UpdateRule(q_function, q_function', history'[1], call.learning_rate)
          /\ iter' # iter + 1 => q_function' = q_function]_vars

\* an update is abandoned only at a state that has no actions
PanicOnlyOnEmptyActionSet ==
    pc = "panic" => Len(states[cur_state]) = 0

\* C7: each Q-learning update of Q[s][a], having observed (nextState, reward),
\* takes as future value an entry of Q[nextState] (epsilon branch) or the
\* maximum of Q[nextState] (otherwise) and sets Q[s][a] to
\* (1-lr)*Q[s][a] + lr*(reward + gamma*futureValue); every other entry is
\* unchanged, and every state's Q vector keeps the length of its action list.
\* Either branch delivers its future value wherever nextState has actions.
QUpdateRule ==
    /\ CompletedUpdatesFollowRule
    /\ []PanicOnlyOnEmptyActionSet

\* C8: a learning run that meets a state with no actions is rejected without a
\* crash: arg_min and arg_max give an empty result on an empty sequence and the
\* run does not panic at such a state.
EmptyActionSetRejectedCleanly ==
    /\ arg_min(<<>>) = None
    /\ arg_max(<<>>) = None
    /\ ~(pc = "panic" /\ Len(states[cur_state]) = 0)

----------------------------------------------------------------------------
(* algorithms.rs : TD(0) under an MDPPolicy *)

\* MDPPolicy::perform_tdzero_update with the transition draw made explicit;
\* the policy is indexed as a SecondaryMap, which panics on a key it lacks
perform_tdzero_update(arena, g, pol, cur, values, learning_rate, rnd) ==
    LET stuck == [kind |-> "panic", cur_state |-> cur, value_mapping |-> values,
                  update |-> <<>>]
    IN  IF cur \notin DOMAIN pol THEN stuck
        ELSE
            LET step == perform_action(arena, cur, pol[cur], rnd)
            IN  IF step.kind # "Ok" THEN stuck
                ELSE
                    LET next_state == step.cur_state
                        expected_reward == RAdd(step.reward, RMul(g, values[next_state]))
                    IN  [kind |-> "Ok",
                         cur_state |-> next_state,
                         value_mapping |->
                             [values EXCEPT ![cur] =
                                 RAdd(RMul(RSub(<<1, 1>>, learning_rate), @),
                                      RMul(learning_rate, expected_reward))],
                         update |-> <<[state |-> cur, action |-> pol[cur],
                                       reward |-> step.reward, next |-> next_state,
                                       learning_rate |-> learning_rate]>>]

----------------------------------------------------------------------------
(* SpecTD: one call of td_zero on the ring of tests::test_cycle_td_zero:    *)
(* action 0 steps forward with reward 1.0, action 1 backward with reward    *)
(* 2.0 (a single outcome of weight 2.0).                                    *)

TDRingTransitions(arena, i) ==
    LET n == Len(arena)
        fwd == add_transition(arena, i + 1,
                   Distribution_new(<<<<((i + 1) % n) + 1, Reward(1)>>>>, <<Finite(1)>>).value).value
    IN  add_transition(fwd, i + 1,
            Distribution_new(<<<<((i + n - 1) % n) + 1, Reward(2)>>>>, <<Finite(2)>>).value).value

RECURSIVE AddTDRing(_, _)
AddTDRing(arena, i) ==
    IF i = Len(arena) THEN arena ELSE AddTDRing(TDRingTransitions(arena, i), i + 1)

TDCycleMDP(n) == AddTDRing(AddStates(<<>>, n), 0)

TDLearningRates == {<<1, 2>>, <<1, 4>>}

\* td_zero up to its second loop: every state's value is 0.0
InitTD ==
    /\ \E n \in 1..MaxStates :
           /\ states = TDCycleMDP(n)
           /\ policy \in [1..n -> 0..2]
           /\ value_mapping = [s \in 1..n |-> <<0, 1>>]
           /\ executed = [s \in 1..n |-> 0]
    /\ gamma = <<1, 2>>
    /\ cur_state = 0
    /\ distribution = NoRet
    /\ \E lr \in TDLearningRates : call = [op |-> "td_zero", learning_rate |-> lr]
    /\ ret = NoRet
    /\ q_function = <<>>
    /\ num_seen = <<>>
    /\ epoch_size \in 1..MaxEpoch
    /\ starting_state = 0
    /\ iter = 0
    /\ pc = "run"
    /\ history = <<>>

\* the outer loop takes the next key and builds the cursor rooted there
TDNextStartingState ==
    /\ pc = "run"
    /\ starting_state = 0 \/ iter = epoch_size
    /\ starting_state < Len(states)
    /\ starting_state' = starting_state + 1
    /\ cur_state' = starting_state + 1
    /\ iter' = 0
    /\ UNCHANGED <<states, gamma, distribution, call, ret, q_function, num_seen,
                   value_mapping, policy, epoch_size, pc, history, executed>>

\* one pass of the inner loop: perform_tdzero_update
TDUpdate ==
    /\ pc = "run"
    /\ starting_state >= 1
    /\ iter < epoch_size
    /\ \E rnd \in QDraws :
           \E r \in {perform_tdzero_update(states, gamma, policy, cur_state, value_mapping,
                                           call.learning_rate, rnd)} :
               /\ value_mapping' = r.value_mapping
               /\ cur_state' = r.cur_state
               /\ history' = r.update
               /\ pc' = IF r.kind = "Ok" THEN "run" ELSE "panic"
               /\ iter' = IF r.kind = "Ok" THEN iter + 1 ELSE iter
               /\ executed' = IF r.kind = "Ok"
                              THEN [executed EXCEPT ![r.update[1].state] = @ + 1]
                              ELSE executed
    /\ UNCHANGED <<states, gamma, distribution, call, ret, q_function, num_seen, policy,
                   epoch_size, starting_state>>

\* both loops are over: value_mapping is returned
TDReturn ==
    /\ pc = "run"
    /\ starting_state = Len(states)
    /\ iter = epoch_size
    /\ pc' = "done"
    /\ ret' = Ok(value_mapping)
    /\ UNCHANGED <<states, gamma, cur_state, distribution, call, q_function, num_seen,
                   value_mapping, policy, epoch_size, starting_state, iter, history, executed>>

NextTD == TDNextStartingState \/ TDUpdate \/ TDReturn

SpecTD == InitTD /\ [][NextTD]_vars

\* the harmonic decay 1/(1/lr + 1), applied k times to lr
RECURSIVE Decayed(_, _)
Decayed(lr, k) ==
    IF k = 0 THEN lr
    ELSE RDiv(<<1, 1>>, RAdd(RDiv(<<1, 1>>, Decayed(lr, k - 1)), <<1, 1>>))

\* C9: TD(0) keeps a learning rate per state, starting at the supplied rate; an
\* update of value[s] uses s's current rate and then replaces it by
\* 1/(1/lr + 1), so the k-th update of s uses the supplied rate decayed k-1 times.
TDRateDecaysPerState ==
    (pc = "run" /\ history # <<>>) =>
        history[1].learning_rate =
            Decayed(call.learning_rate, executed[history[1].state] - 1)

\* what the code does instead: every update uses the supplied rate
TDRateIsFixed ==
    (pc = "run" /\ history # <<>>) => history[1].learning_rate = call.learning_rate

----------------------------------------------------------------------------
(* SpecArgOrd: the four ArgOrd functions applied to one Vec of numbers.     *)
(* Init draws the Vec; the functions are pure, so it never changes.         *)

NumberVals == {RInt(-1), RInt(0), <<1, 2>>, RInt(1), RInt(2)}

InitArgOrd ==
    /\ \E v \in SeqsUpTo(NumberVals, MaxLen) : call = [op |-> "args", v |-> v]
    /\ ret = NoRet
    /\ distribution = NoRet
    /\ MDPIdle
    /\ AlgIdle

\* v.arg_min()
ArgMin ==
    /\ ret' = arg_min(call.v)
    /\ call' = [call EXCEPT !.op = "arg_min"]
    /\ UNCHANGED <<distribution, mdp_vars, alg_vars>>

\* v.arg_max()
ArgMax ==
    /\ ret' = arg_max(call.v)
    /\ call' = [call EXCEPT !.op = "arg_max"]
    /\ UNCHANGED <<distribution, mdp_vars, alg_vars>>

\* v.min_val()
MinVal ==
    /\ ret' = min_val(call.v)
    /\ call' = [call EXCEPT !.op = "min_val"]
    /\ UNCHANGED <<distribution, mdp_vars, alg_vars>>

\* v.max_val()
MaxVal ==
    /\ ret' = max_val(call.v)
    /\ call' = [call EXCEPT !.op = "max_val"]
    /\ UNCHANGED <<distribution, mdp_vars, alg_vars>>

NextArgOrd == ArgMin \/ ArgMax \/ MinVal \/ MaxVal

SpecArgOrd == InitArgOrd /\ [][NextArgOrd]_vars

\* the 1-based positions of the minima and of the maxima of v
MinimaOf(v) == {i \in 1..Len(v) : \A j \in 1..Len(v) : ~RLess(v[j], v[i])}

MaximaOf(v) == {i \in 1..Len(v) : \A j \in 1..Len(v) : ~RLess(v[i], v[j])}

\* C11: on a non-empty sequence arg_min returns the lowest index of a minimum
\* element, arg_max the index of a maximum element, min_val the minimum value
\* and max_val the maximum value.
ArgOrdContract ==
    Len(call.v) > 0 =>
        /\ call.op = "arg_min" => ret = Some(Least(MinimaOf(call.v)) - 1)
        /\ call.op = "arg_max" => (ret.kind = "Some" /\ ret.value + 1 \in MaximaOf(call.v))
        /\ call.op = "min_val" => ret = [kind |-> "Ok", value |-> call.v[Least(MinimaOf(call.v))]]
        /\ call.op = "max_val" => ret = [kind |-> "Ok", value |-> call.v[Least(MaximaOf(call.v))]]

\* the half of C11 about arg_max and max_val alone
ArgMaxContract ==
    Len(call.v) > 0 =>
        /\ call.op = "arg_max" => (ret.kind = "Some" /\ ret.value + 1 \in MaximaOf(call.v))
        /\ call.op = "max_val" => ret = [kind |-> "Ok", value |-> call.v[Least(MaximaOf(call.v))]]

\* what arg_min and min_val return instead: the first maximum and its value
ArgMinReturnsFirstMaximum ==
    Len(call.v) > 0 =>
        /\ call.op = "arg_min" => ret = Some(Least(MaximaOf(call.v)) - 1)
        /\ call.op = "min_val" => ret = [kind |-> "Ok", value |-> call.v[Least(MaximaOf(call.v))]]

====
